---- MODULE Spec2Model ----
(***************************************************************************)
(* checked-copy (src/src/main.rs): a recursive, fingerprint-verified copy  *)
(* of a source tree into a destination tree.                               *)
(*                                                                         *)
(* The state is the file system, the options, the directory walker that    *)
(* `run` iterates (walkdir's stack of open directories), the entry in      *)
(* hand and the position of `run` inside its loop body.  File names are    *)
(* sequences of characters, paths are sequences of names.                  *)
(***************************************************************************)
EXTENDS Integers, Sequences, FiniteSets, TLC

(* ------------------------------ bounds -------------------------------- *)
\* file contents are 0..MaxContent; 0 is the empty (or truncated) content
MaxContent == 1
\* entries below the source root in the initial file system
MaxSrcEntries == 2
\* I/O faults the environment may inject into one execution
MaxFaults == 1

(* ------------------------------ paths --------------------------------- *)
Plain == <<"a">>
Dotted == <<".", "h">>
Names == {Plain, Dotted}

SrcPlain == <<<<"s">>>>
SrcDotted == <<<<".", "s">>>>
DstRoot == <<<<"d">>>>
Roots == {SrcPlain, SrcDotted, DstRoot}

RelPaths == {<<n>> : n \in Names} \cup {<<n, m>> : n \in Names, m \in Names}
AbsPaths == {r \o p : r \in Roots \cup {DstRoot \o <<Plain>>}, p \in RelPaths \cup {<< >>}}

Contents == 0..MaxContent

\* str::starts_with('.') on a file name
starts_with_dot(name) == Len(name) > 0 /\ Head(name) = "."
\* DirEntry::file_name: the last component of the entry's path
file_name(path) == path[Len(path)]
\* Path::strip_prefix(base).unwrap()
strip_prefix(path, base) == SubSeq(path, Len(base) + 1, Len(path))
\* Path::join
join(base, rel) == base \o rel
\* Path::parent
parent(path) == SubSeq(path, 1, Len(path) - 1)
IsPrefix(p, q) == Len(p) <= Len(q) /\ SubSeq(q, 1, Len(p)) = p

(* --------------------------- file system ------------------------------ *)
Absent == [kind |-> "none", data |-> 0]
Dir == [kind |-> "dir", data |-> 0]
Other == [kind |-> "other", data |-> 0]
File(c) == [kind |-> "file", data |-> c]

VARIABLES
  fs,              \* the file system: absolute path -> node
  opts,            \* Opts
  faults,          \* I/O faults the environment may still inject
  runs,            \* 1 during the first call of run, 2 during the second
  started,         \* walkdir: the root entry has been produced
  stack,           \* walkdir: the open directories, innermost last
  cur,             \* the Object in hand
  pc,              \* position of run inside its loop
  source_imprint,  \* the local of that name
  result,          \* what run returned
  log,             \* stdout of the current call, one record per line
  ops,             \* file-system operations the current call issued
  fs0,             \* the file system when the current call started
  dropped,         \* entries the walk failed to read in the current call
  visited,         \* absolute paths of the objects the loop body received
  before,          \* the source and destination nodes when cur was received
  prev_log         \* stdout of the previous call

vars == <<fs, opts, faults, runs, started, stack, cur, pc, source_imprint,
          result, log, ops, fs0, dropped, visited, before, prev_log>>

NodeAt(f, p) == IF p \in DOMAIN f THEN f[p] ELSE Absent
\* Path::exists
exists(f, p) == NodeAt(f, p).kind # "none"
\* the names a read of directory d returns
Children(f, d) == {n \in Names : exists(f, d \o <<n>>)}

\* Imprint::new on the content of a readable file: an opaque value, equal
\* for equal contents only
Imprint(c) == [digest |-> c]
NoImprint == [digest |-> -1]

Running == [status |-> "running", kind |-> "", source |-> << >>, destination |-> << >>]
Ok == [status |-> "Ok", kind |-> "", source |-> << >>, destination |-> << >>]
\* an io::Error of a file-system operation on path p
IoErr(op, p) == [status |-> "Err", kind |-> op, source |-> p, destination |-> << >>]
\* BadCopy::new with its arguments exchanged
BadCopy_swapped(s, d) ==
  [status |-> "Err", kind |-> "BadCopy", source |-> d, destination |-> s]

\* io::Error::new(InvalidData, BadCopy::new(source, destination))
BadCopy(s, d) == [status |-> "Err", kind |-> "BadCopy", source |-> s, destination |-> d]
\* io::Error::new(Other, "attempt to copy to self")
SelfCopy == [status |-> "Err", kind |-> "attempt to copy to self",
             source |-> << >>, destination |-> << >>]

NoObject == [file_type |-> "none", absolute_path |-> << >>, relative_path |-> << >>]
\* Object::new
Object(base_path, path, kind) ==
  [file_type |-> kind, absolute_path |-> path,
   relative_path |-> strip_prefix(path, base_path)]

NoNodes == [source |-> Absent, destination |-> Absent]

Op(op, p, ok) == [op |-> op, path |-> p, ok |-> ok]
Line(what, rel) == [what |-> what, path |-> rel]

(* ------------------------------ Init ---------------------------------- *)
\* a tree: a prefix-closed set of relative paths, inner nodes directories,
\* leaves drawn from `leaves`
Trees(paths, max, leaves) ==
  UNION { { t \in [P -> leaves \cup {Dir}] :
              \A p \in P : (\E q \in P : q # p /\ IsPrefix(p, q)) => t[p] = Dir }
          : P \in { Q \in SUBSET paths :
                      /\ Cardinality(Q) <= max
                      /\ \A q \in Q : Len(q) > 1 => parent(q) \in Q } }

SrcLeaves == {File(c) : c \in Contents} \cup {Dir, Other}
DstLeaves == {File(c) : c \in Contents} \cup {Dir}

\* the file system holding tree st below the directory src and, when the
\* destination root exists, tree dt below dst; where both trees name a path
\* (overlapping roots) the source tree decides
MkFs(src, st, dst, dt, dstExists) ==
  [p \in AbsPaths |->
     IF IsPrefix(p, src) THEN Dir
     ELSE IF IsPrefix(src, p)
       THEN NodeAt(st, strip_prefix(p, src))
     ELSE IF ~dstExists THEN Absent
     ELSE IF p = dst THEN Dir
     ELSE IF IsPrefix(dst, p) THEN NodeAt(dt, strip_prefix(p, dst))
     ELSE Absent]

\* the roots of a call: disjoint trees, one tree given twice, or the source
\* a directory of the destination
Layouts ==
  { <<SrcPlain, DstRoot>>, <<SrcDotted, DstRoot>>, <<SrcPlain, SrcPlain>>,
    <<DstRoot \o <<Plain>>, DstRoot>> }

InitWith(budget) ==
  /\ \E l \in Layouts, h \in BOOLEAN, r \in BOOLEAN :
       /\ opts = [source |-> l[1], destination |-> l[2],
                  include_hidden_files |-> h, remove_copied_files |-> r]
       /\ \E st \in Trees(RelPaths, MaxSrcEntries, SrcLeaves), e \in BOOLEAN :
          \E dt \in Trees(DOMAIN st, MaxSrcEntries, DstLeaves) :
            /\ IsPrefix(l[2], l[1]) => e
            /\ (l[2] = l[1] \/ ~e) => DOMAIN dt = {}
            /\ \A p \in DOMAIN dt : ~IsPrefix(l[1], l[2] \o p)
            /\ fs = MkFs(l[1], st, l[2], dt, e)
  /\ faults = budget
  /\ runs = 1
  /\ started = FALSE
  /\ stack = << >>
  /\ cur = NoObject
  /\ pc = "walk"
  /\ source_imprint = NoImprint
  /\ result = Running
  /\ log = << >>
  /\ ops = << >>
  /\ fs0 = fs
  /\ dropped = {}
  /\ visited = {}
  /\ before = NoNodes
  /\ prev_log = << >>

(* --------------------------- the walk --------------------------------- *)
\* line 110
destination == join(opts.destination, cur.relative_path)

\* walkdir, IntoIter::push: a directory just opened
Frame(d) == [dir |-> d, rest |-> Children(fs, d), seen |-> {}]
Top == stack[Len(stack)]
Pop == SubSeq(stack, 1, Len(stack) - 1)

\* the filter_map closure, lines 102-106, given an entry the walk read
hidden(path) ==
  ~opts.include_hidden_files /\ starts_with_dot(file_name(path))

Deliver(path, kind) ==
  IF hidden(path)
    THEN UNCHANGED <<cur, pc, visited, before, prev_log>>
    ELSE /\ cur' = Object(opts.source, path, kind)
         /\ pc' = "entry"
         /\ visited' = visited \cup {path}
         /\ before' = [source |-> NodeAt(fs, path),
                       destination |->
                         NodeAt(fs, join(opts.destination,
                                         strip_prefix(path, opts.source)))]

\* the root entry (depth 0): walkdir opens it and hands it to the closure
WalkRoot ==
  /\ pc = "walk" /\ ~started
  /\ started' = TRUE
  /\ stack' = <<Frame(opts.source)>>
  /\ Deliver(opts.source, "dir")
  /\ UNCHANGED <<fs, opts, faults, runs, source_imprint, result, log, ops,
                 fs0, dropped, prev_log>>

\* the names the innermost open directory may return next: those it held
\* when it was opened, or one created in it since (readdir may or may not
\* return such a name)
Readable == Top.rest \cup (Children(fs, Top.dir) \ Top.seen)

\* one entry read from the innermost open directory; a directory is opened
\* before the closure sees its entry
WalkEntry ==
  /\ pc = "walk" /\ started /\ stack # << >>
  /\ \E n \in Readable :
       LET path == Top.dir \o <<n>>
           kind == NodeAt(fs, path).kind
           top == [Top EXCEPT !.rest = @ \ {n}, !.seen = @ \cup {n}]
       IN /\ kind # "none"
          /\ stack' = IF kind = "dir"
                        THEN Append(Append(Pop, top), Frame(path))
                        ELSE Append(Pop, top)
          /\ Deliver(path, kind)
  /\ UNCHANGED <<fs, opts, faults, runs, started, source_imprint, result,
                 log, ops, fs0, dropped, prev_log>>

\* line 101, entry.ok()?: an entry the walk cannot read is skipped, and a
\* directory among them is not opened
WalkError ==
  /\ pc = "walk" /\ started /\ stack # << >> /\ faults > 0
  /\ \E n \in Top.rest :
       /\ stack' = Append(Pop, [Top EXCEPT !.rest = @ \ {n}, !.seen = @ \cup {n}])
       /\ dropped' = dropped \cup {Top.dir \o <<n>>}
  /\ faults' = faults - 1
  /\ UNCHANGED <<fs, opts, runs, started, cur, pc, source_imprint, result,
                 log, ops, fs0, visited, before, prev_log>>

\* the innermost directory is exhausted
WalkPop ==
  /\ pc = "walk" /\ started /\ stack # << >> /\ Top.rest = {}
  /\ stack' = Pop
  /\ UNCHANGED <<fs, opts, faults, runs, started, cur, pc, source_imprint,
                 result, log, ops, fs0, dropped, visited, before, prev_log>>

\* the iterator is exhausted: line 147
WalkEnd ==
  /\ pc = "walk" /\ started /\ stack = << >>
  /\ pc' = "done"
  /\ result' = Ok
  /\ UNCHANGED <<fs, opts, faults, runs, started, stack, cur, source_imprint,
                 log, ops, fs0, dropped, visited, before, prev_log>>

(* ------------------------- the loop body ------------------------------ *)
\* an error that is swallowed: the loop goes on to the next entry
Fail_continue(err, op) ==
  /\ result' = result
  /\ pc' = "walk"
  /\ ops' = IF op = << >> THEN ops ELSE Append(ops, op[1])

\* `?` and `return Err(..)`: run returns the error
Fail(err, op) ==
  /\ result' = err
  /\ pc' = "done"
  /\ ops' = IF op = << >> THEN ops ELSE Append(ops, op[1])

Prefixes(p) == {SubSeq(p, 1, k) : k \in 1..Len(p)}
\* fs::create_dir_all succeeds when no component of the path is a
\* non-directory
CanCreateDirAll(f, p) ==
  \A q \in Prefixes(p) : q \in DOMAIN f /\ f[q].kind \in {"none", "dir"}
CreateDirAll(f, p) == [q \in DOMAIN f |-> IF q \in Prefixes(p) THEN Dir ELSE f[q]]

\* lines 112-118
DirEntry ==
  /\ pc = "entry" /\ cur.file_type = "dir"
  /\ IF exists(fs, destination)
       THEN /\ pc' = "walk"
            /\ UNCHANGED <<fs, faults, result, log, ops>>
       ELSE \/ /\ CanCreateDirAll(fs, destination)
               /\ fs' = CreateDirAll(fs, destination)
               /\ ops' = Append(ops, Op("create_dir_all", destination, TRUE))
               /\ log' = Append(log, Line("created", cur.relative_path))
               /\ pc' = "walk"
               /\ UNCHANGED <<faults, result>>
            \/ /\ ~CanCreateDirAll(fs, destination)
               /\ Fail(IoErr("create_dir_all", destination),
                       <<Op("create_dir_all", destination, FALSE)>>)
               /\ UNCHANGED <<fs, faults, log>>
            \/ /\ faults > 0
               /\ faults' = faults - 1
               /\ Fail(IoErr("create_dir_all", destination),
                       <<Op("create_dir_all", destination, FALSE)>>)
               /\ UNCHANGED <<fs, log>>
  /\ UNCHANGED <<opts, runs, started, stack, cur, source_imprint, fs0,
                 dropped, visited, before, prev_log>>

\* an entry that is neither a directory nor a file: lines 112, 120, 145
OtherEntry ==
  /\ pc = "entry" /\ cur.file_type = "other"
  /\ pc' = "walk"
  /\ UNCHANGED <<fs, opts, faults, runs, started, stack, cur, source_imprint,
                 result, log, ops, fs0, dropped, visited, before, prev_log>>

\* Imprint::new(path)?
Readable_file(f, p) == NodeAt(f, p).kind = "file"

\* line 121
SourceImprint ==
  /\ pc = "entry" /\ cur.file_type = "file"
  /\ \/ /\ Readable_file(fs, cur.absolute_path)
        /\ source_imprint' = Imprint(fs[cur.absolute_path].data)
        /\ ops' = Append(ops, Op("imprint", cur.absolute_path, TRUE))
        /\ pc' = "compare"
        /\ UNCHANGED <<faults, result>>
     \/ /\ ~Readable_file(fs, cur.absolute_path) \/ faults > 0
        /\ faults' = IF Readable_file(fs, cur.absolute_path) THEN faults - 1 ELSE faults
        /\ Fail(IoErr("imprint", cur.absolute_path),
                <<Op("imprint", cur.absolute_path, FALSE)>>)
        /\ UNCHANGED source_imprint
  /\ UNCHANGED <<fs, opts, runs, started, stack, cur, log, fs0, dropped, visited, before, prev_log>>

\* the source file is removed whatever the option says
AfterReport_always == "remove"

\* where run goes after a report line: the tests of lines 124 and 141
AfterReport == IF opts.remove_copied_files THEN "remove" ELSE "walk"

\* a comparison that never finds the destination in sync
AlreadySynced_never(f, d, imprint) == FALSE

\* the test of line 122
AlreadySynced(f, d, imprint) == imprint = Imprint(f[d].data)

\* lines 122-123 and the test of line 124
Compare ==
  /\ pc = "compare"
  /\ IF ~exists(fs, destination)
       THEN /\ pc' = "copy"
            /\ UNCHANGED <<faults, result, log, ops>>
       ELSE \/ /\ Readable_file(fs, destination)
               /\ ops' = Append(ops, Op("imprint", destination, TRUE))
               /\ IF AlreadySynced(fs, destination, source_imprint)
                    THEN /\ log' = Append(log, Line("exists", cur.relative_path))
                         /\ pc' = AfterReport
                    ELSE /\ pc' = "copy"
                         /\ UNCHANGED log
               /\ UNCHANGED <<faults, result>>
            \/ /\ ~Readable_file(fs, destination) \/ faults > 0
               /\ faults' = IF Readable_file(fs, destination) THEN faults - 1 ELSE faults
               /\ Fail(IoErr("imprint", destination),
                       <<Op("imprint", destination, FALSE)>>)
               /\ UNCHANGED log
  /\ UNCHANGED <<fs, opts, runs, started, stack, cur, source_imprint, fs0,
                 dropped, visited, before, prev_log>>

\* fs::copy(from, to) succeeds when from is a file, to is not a directory
\* and the directory to hold it exists
CanCopy(f, from, to) ==
  /\ NodeAt(f, from).kind = "file"
  /\ to \in DOMAIN f /\ f[to].kind \in {"none", "file"}
  /\ NodeAt(f, parent(to)).kind = "dir"
\* the bytes fs::copy leaves at the destination
Copied(f, from, to, data) == [f EXCEPT ![to] = File(data)]

\* line 130 and Object::copy_to, lines 49-60
Copy ==
  /\ pc = "copy"
  /\ IF cur.absolute_path = destination
       THEN /\ Fail(SelfCopy, << >>)
            /\ UNCHANGED <<fs, faults>>
       ELSE \/ /\ CanCopy(fs, cur.absolute_path, destination)
               /\ fs' = Copied(fs, cur.absolute_path, destination,
                               fs[cur.absolute_path].data)
               /\ ops' = Append(ops, Op("copy", destination, TRUE))
               /\ pc' = "verify"
               /\ UNCHANGED <<faults, result>>
            \/ \* the copy reports success and the destination is truncated
               /\ CanCopy(fs, cur.absolute_path, destination)
               /\ faults > 0 /\ fs[cur.absolute_path].data # 0
               /\ faults' = faults - 1
               /\ fs' = Copied(fs, cur.absolute_path, destination, 0)
               /\ ops' = Append(ops, Op("copy", destination, TRUE))
               /\ pc' = "verify"
               /\ UNCHANGED result
            \/ /\ ~CanCopy(fs, cur.absolute_path, destination) \/ faults > 0
               /\ faults' = IF CanCopy(fs, cur.absolute_path, destination)
                              THEN faults - 1 ELSE faults
               /\ Fail(IoErr("copy", destination), <<Op("copy", destination, FALSE)>>)
               /\ UNCHANGED fs
  /\ UNCHANGED <<opts, runs, started, stack, cur, source_imprint, log, fs0,
                 dropped, visited, before, prev_log>>

\* a verification that accepts every copy
Mismatch_never(a, b) == FALSE

\* the test of line 132
Mismatch(a, b) == a # b

\* lines 131-139 and the test of line 141
Verify ==
  /\ pc = "verify"
  /\ \/ /\ Readable_file(fs, destination)
        /\ ops' = Append(ops, Op("imprint", destination, TRUE))
        /\ IF Mismatch(source_imprint, Imprint(fs[destination].data))
             THEN /\ result' = BadCopy(cur.absolute_path, destination)
                  /\ pc' = "done"
                  /\ UNCHANGED log
             ELSE /\ log' = Append(log, Line("copied", cur.relative_path))
                  /\ pc' = AfterReport
                  /\ UNCHANGED result
        /\ UNCHANGED faults
     \/ /\ ~Readable_file(fs, destination) \/ faults > 0
        /\ faults' = IF Readable_file(fs, destination) THEN faults - 1 ELSE faults
        /\ Fail(IoErr("imprint", destination), <<Op("imprint", destination, FALSE)>>)
        /\ UNCHANGED log
  /\ UNCHANGED <<fs, opts, runs, started, stack, cur, source_imprint, fs0,
                 dropped, visited, before, prev_log>>

\* fs::remove_file
Removed(f, p) == [f EXCEPT ![p] = Absent]

\* lines 125 and 142
Remove ==
  /\ pc = "remove"
  /\ \/ /\ exists(fs, cur.absolute_path)
        /\ fs' = Removed(fs, cur.absolute_path)
        /\ ops' = Append(ops, Op("remove_file", cur.absolute_path, TRUE))
        /\ pc' = "walk"
        /\ UNCHANGED <<faults, result>>
     \/ /\ ~exists(fs, cur.absolute_path) \/ faults > 0
        /\ faults' = IF exists(fs, cur.absolute_path) THEN faults - 1 ELSE faults
        /\ Fail(IoErr("remove_file", cur.absolute_path),
                <<Op("remove_file", cur.absolute_path, FALSE)>>)
        /\ UNCHANGED fs
  /\ UNCHANGED <<opts, runs, started, stack, cur, source_imprint, log, fs0,
                 dropped, visited, before, prev_log>>

\* main, lines 91-97, invoked again with the same options after a call
\* that returned Ok
Rerun ==
  /\ pc = "done" /\ result = Ok /\ runs = 1
  /\ runs' = 2
  /\ started' = FALSE
  /\ stack' = << >>
  /\ cur' = NoObject
  /\ pc' = "walk"
  /\ source_imprint' = NoImprint
  /\ result' = Running
  /\ log' = << >>
  /\ ops' = << >>
  /\ fs0' = fs
  /\ dropped' = {}
  /\ visited' = {}
  /\ before' = NoNodes
  /\ prev_log' = log
  /\ UNCHANGED <<fs, opts, faults>>

\* one call of run, in an environment that may inject faults
Init == InitWith(MaxFaults)

Next ==
  \/ WalkRoot \/ WalkEntry \/ WalkError \/ WalkPop \/ WalkEnd
  \/ DirEntry \/ OtherEntry \/ SourceImprint \/ Compare \/ Copy \/ Verify
  \/ Remove

Spec == Init /\ [][Next]_vars

\* two calls of run in a row, in an environment that injects no fault
InitQuiet == InitWith(0)

NextTwice ==
  \/ WalkRoot \/ WalkEntry \/ WalkPop \/ WalkEnd
  \/ DirEntry \/ OtherEntry \/ SourceImprint \/ Compare \/ Copy \/ Verify
  \/ Remove \/ Rerun

SpecTwice == InitQuiet /\ [][NextTwice]_vars
(* ------------------------------ claims -------------------------------- *)
SrcPath(rel) == join(opts.source, rel)
DstPath(rel) == join(opts.destination, rel)
HiddenRel(rel) == \E k \in 1..Len(rel) : starts_with_dot(rel[k])
SameRoots == opts.source = opts.destination
DisjointRoots ==
  /\ ~IsPrefix(opts.source, opts.destination)
  /\ ~IsPrefix(opts.destination, opts.source)
NoFaultInjected == faults = MaxFaults
LastOp == ops[Len(ops)]
LastLine == log[Len(log)]
\* run has finished a file entry and gone back to the walk
FileEntryDone == pc = "walk" /\ cur.file_type = "file"
\* the report line of the file entry in hand has been printed
Reported(what) ==
  /\ cur.file_type = "file" /\ pc \in {"walk", "remove"}
  /\ Len(log) > 0 /\ LastLine = Line(what, cur.relative_path)

\* C1: from an existing, empty destination distinct from the source, with
\* remove_copied_files off and no fault, run returns Ok and the destination
\* then holds every non-hidden (every, with include_hidden_files) directory
\* and file of the source tree at the same relative path, files with the
\* source's fingerprint.
C1_MirrorsSourceTree ==
  ( /\ pc = "done" /\ NoFaultInjected
    /\ ~opts.remove_copied_files
    /\ opts.destination # opts.source
    /\ fs0[opts.destination] = Dir
    /\ \A rel \in RelPaths : ~exists(fs0, DstPath(rel)) )
  => /\ result = Ok
     /\ \A rel \in RelPaths :
          ( /\ fs0[SrcPath(rel)].kind \in {"dir", "file"}
            /\ opts.include_hidden_files \/ ~HiddenRel(rel) )
          => /\ fs[DstPath(rel)].kind = fs0[SrcPath(rel)].kind
             /\ Imprint(fs[DstPath(rel)].data) = Imprint(fs0[SrcPath(rel)].data)

\* C2: with include_hidden_files off and a destination that starts without
\* hidden entries, the destination never holds an entry with a dotted name
\* or below one, and no entry below a dotted source directory is handed to
\* the loop body; with include_hidden_files on, a fault-free run that
\* returned Ok has processed every entry of the source tree.
C2_HiddenExcluded ==
  /\ ( /\ ~opts.include_hidden_files
       /\ \A rel \in RelPaths : HiddenRel(rel) => ~exists(fs0, DstPath(rel)) )
     => /\ \A rel \in RelPaths : HiddenRel(rel) => ~exists(fs, DstPath(rel))
        /\ \A p \in visited : ~HiddenRel(strip_prefix(p, opts.source))
  /\ ( /\ opts.include_hidden_files
       /\ pc = "done" /\ result = Ok /\ NoFaultInjected )
     => \A rel \in RelPaths : exists(fs0, SrcPath(rel)) => SrcPath(rel) \in visited

\* C9: when run starts on an entry below the source root, the parent of its
\* destination path exists, and no copy fails for want of that parent.
C9_ParentBeforeChild ==
  /\ (pc = "entry" /\ cur.file_type \in {"dir", "file"} /\ Len(cur.relative_path) >= 1)
     => exists(fs, parent(destination))
  /\ (result.status = "Err" /\ result.kind = "copy")
     => exists(fs, parent(result.source))

\* C6: right after run deleted a source file, the destination path of that
\* entry is a file with the fingerprint the source file had, whatever the
\* roots are.
C6_DeletedSourceSurvives ==
  ( /\ FileEntryDone /\ opts.remove_copied_files
    /\ Len(ops) > 0 /\ LastOp = Op("remove_file", cur.absolute_path, TRUE) )
  => /\ Readable_file(fs, destination)
     /\ Imprint(fs[destination].data) = source_imprint

\* C10: "exists" is printed for a file entry exactly when its destination
\* existed with the source's fingerprint when the entry was received, and
\* then nothing is copied and the destination file stays as it was; a file
\* entry finished without error printed exactly one of "exists" and
\* "copied"; "created" is printed only for a directory that was missing and
\* now exists.
C10_ExistsMeansUntouched ==
  /\ Reported("exists")
     => /\ before.destination.kind = "file"
        /\ Imprint(before.destination.data) = Imprint(before.source.data)
        /\ NodeAt(fs, destination) = before.destination
        /\ \A i \in 1..Len(ops) : ops[i] # Op("copy", destination, TRUE)
  /\ Reported("copied")
     => ~( /\ before.destination.kind = "file"
           /\ Imprint(before.destination.data) = Imprint(before.source.data) )
  /\ FileEntryDone
     => /\ Reported("exists") \/ Reported("copied")
        /\ Cardinality({i \in 1..Len(log) : log[i].path = cur.relative_path}) = 1
  /\ ( /\ cur.file_type = "dir" /\ pc = "walk" /\ Len(log) > 0
       /\ LastLine = Line("created", cur.relative_path) )
     => /\ before.destination.kind = "none"
        /\ NodeAt(fs, destination) = Dir

SecondRunIdle ==
  /\ \A i \in 1..Len(ops) : ops[i].op \notin {"copy", "create_dir_all"}
  /\ \A i \in 1..Len(log) : log[i].what = "exists"
  /\ FileEntryDone => Reported("exists")
  /\ result.status # "Err"
  /\ fs = fs0

\* C3 as stated: after a first call that returned Ok, a second call with
\* remove_copied_files off copies nothing, creates no directory, prints
\* "exists" for every file entry, returns Ok and leaves the file system as
\* the first call left it.
C3_SecondRunIdle_AnyRoots ==
  (runs = 2 /\ ~opts.remove_copied_files) => SecondRunIdle

\* C3 amended: the same, for roots that are disjoint or the same directory.
C3_SecondRunIdle ==
  (runs = 2 /\ ~opts.remove_copied_files /\ (DisjointRoots \/ SameRoots))
  => SecondRunIdle

C3_Witness ==
  /\ runs = 2 /\ pc = "done" /\ result = Ok
  /\ ~opts.remove_copied_files /\ DisjointRoots
  /\ \E i \in 1..Len(prev_log) : prev_log[i].what = "created"
  /\ \E i \in 1..Len(prev_log) : prev_log[i].what = "copied"
  /\ log = <<Line("exists", prev_log[Len(prev_log)].path)>>

SourcePaths == {p \in AbsPaths : IsPrefix(opts.source, p)}
SourceUnchanged == \A p \in SourcePaths : fs[p] = fs0[p]
SourceKept == \A p \in SourcePaths : exists(fs0, p) => exists(fs, p)
RemovedWhenDone ==
  (opts.remove_copied_files /\ FileEntryDone) => ~exists(fs, cur.absolute_path)

\* C4 as stated: with remove_copied_files on, a file entry finished as
\* "exists" or "copied" is gone from its source path; with it off, the
\* source tree stays as it was when the call started.
C4_RemoveAfterCopy_AnyRoots ==
  /\ RemovedWhenDone
  /\ ~opts.remove_copied_files => SourceUnchanged

\* C4 amended: with remove_copied_files on, a file entry finished as
\* "exists" or "copied" is gone from its source path; with it off, run
\* deletes nothing of the source tree, and leaves the source tree as it was
\* when the roots are disjoint or the same directory.
C4_RemoveAfterCopy ==
  /\ RemovedWhenDone
  /\ ~opts.remove_copied_files
     => /\ SourceKept
        /\ (DisjointRoots \/ SameRoots) => SourceUnchanged

C4_Witness ==
  /\ opts.remove_copied_files /\ FileEntryDone /\ Reported("copied")
  /\ before.source.kind = "file"
  /\ ~exists(fs, cur.absolute_path)
  /\ NodeAt(fs, destination) = before.source

\* C5: a destination fingerprint that differs after the copy makes run
\* return BadCopy with the entry's source path and destination path; no
\* "copied" line is printed for the entry, its source file is still there,
\* and run does nothing more.
C5_CorruptionStops ==
  /\ result.kind = "BadCopy"
     => /\ result.status = "Err" /\ pc = "done"
        /\ result.source = cur.absolute_path
        /\ result.destination = join(opts.destination, cur.relative_path)
        /\ \A i \in 1..Len(log) : log[i] # Line("copied", cur.relative_path)
        /\ NodeAt(fs, cur.absolute_path) = before.source
        /\ ~ENABLED Next
  /\ ( /\ cur.file_type = "file" /\ Len(ops) >= 2
       /\ LastOp = Op("imprint", destination, TRUE)
       /\ ops[Len(ops) - 1] = Op("copy", destination, TRUE)
       /\ Imprint(fs[destination].data) # source_imprint )
     => result.kind = "BadCopy"

C5_Witness ==
  /\ result.kind = "BadCopy"
  /\ opts.remove_copied_files
  /\ \E i \in 1..Len(stack) : stack[i].rest # {}

\* C7: "copied" is printed for an entry only when the destination is a file
\* with the fingerprint taken from the source before the copy, so a
\* destination file that differed holds the source's bytes by then.
C7_CopiedMeansIdentical ==
  Reported("copied")
  => /\ NodeAt(fs, destination).kind = "file"
     /\ Imprint(fs[destination].data) = source_imprint
     /\ source_imprint = Imprint(before.source.data)
     /\ fs[destination].data = before.source.data

C7_Witness ==
  /\ Reported("copied")
  /\ before.destination.kind = "file"
  /\ before.destination.data # before.source.data
  /\ fs[destination].data = before.source.data

IoFailure ==
  /\ result.status = "Err"
  /\ result.kind \in {"create_dir_all", "imprint", "copy", "remove_file"}

====
